---- MODULE Spec2Model ----
(***************************************************************************)
(* A model of zp::Package (src/zpack/zpPackage.cpp): a single-file archive *)
(* with a header, an entry table kept in byte-offset order, a parallel     *)
(* name table, an open-addressing hash index, lazy deletion and defrag.    *)
(*                                                                         *)
(* The package file is modelled cell by cell (m_stream): one cell stands   *)
(* for one unit of the stream.  A header occupies sizeofPackageHeader      *)
(* cells, an entry record sizeofFileEntry cells, a content byte one cell,  *)
(* a name character one cell.  Positions are 0-based as in the code; the   *)
(* sequence index of position p is p + 1.                                  *)
(***************************************************************************)
EXTENDS Integers, Sequences, FiniteSets, TLC

(***************************************************************************)
(* Program constants.  The two hash-table sizes and the two sizeof values  *)
(* are scaled down (256 -> 2, 0x80000 -> 2) so that the capacity limit of  *)
(* buildHashTable is reached with a handful of entries.                    *)
(***************************************************************************)
MIN_HASH_TABLE_SIZE == 2
MAX_HASH_TABLE_SIZE == 2
HASH_SEED0 == 31
HASH_SEED1 == 131
HASH_SEED2 == 1313
sizeofPackageHeader == 2
sizeofFileEntry == 2
PACKAGE_FILE_SIGN == 1
CURRENT_VERSION == 1
FILE_FLAG_DELETED == 1
FLAG_REPLACE == 1

(***************************************************************************)
(* Bounds of the model.                                                    *)
(***************************************************************************)
\* addFile is explored while the entry table holds fewer than MaxEntries records
MaxEntries == 3
\* addFile is explored while the new content ends at or before this position
MaxPos == 7
\* calls that change the instance are explored while fewer than MaxOps were made
MaxOps == 4

VARIABLES
    m_stream,       \* the package file: a sequence of cells
    valid,          \* m_stream.is_open()
    m_readonly,
    m_dirty,
    m_header,
    m_fileEntries,
    m_filenames,
    m_hashTable,    \* sequence of ints, -1 = empty slot, else a 0-based entry index
    crashed,        \* the process died (integer division by zero in getFileIndex)
    added,          \* history: name key -> content last added under it since the last open
    session,        \* history: "adds" while only addFile has changed the package since the open
    ops,            \* history: the number of calls so far that changed the instance
    committed,      \* history: per entry, was it in the table at the last load or flush
    ret             \* history: the last public call and what it returned

vars == <<m_stream, valid, m_readonly, m_dirty, m_header, m_fileEntries,
          m_filenames, m_hashTable, crashed, added, session, ops, committed, ret>>

store == <<m_stream, valid, m_readonly, m_dirty, m_header, m_fileEntries,
           m_filenames, m_hashTable>>

Max(a, b) == IF a >= b THEN a ELSE b

(***************************************************************************)
(* Names and external files (the inputs of the public calls).              *)
(***************************************************************************)
\* "a", "A", "a@", "b!" as character codes; "a@" and "b!" have equal hash0
Names == { <<97>>, <<65>>, <<97, 64>>, <<98, 33>> }

\* external files by path: content, or "missing" for a path that cannot be opened
ExtFiles == { "e0", "e1", "e2", "missing" }

ExtExists(ext) == ext # "missing"

ExtContent(ext) ==
    CASE ext = "e0" -> << >>
      [] ext = "e1" -> <<1>>
      [] ext = "e2" -> <<2, 3>>
      [] OTHER -> << >>

(***************************************************************************)
(* stringHash: out = out * seed + tolower(c) over the characters.  The     *)
(* names used are at most three characters long, so the u32 accumulator    *)
(* never wraps (126 * 1313^2 + ... < 2^31).                                *)
(***************************************************************************)
tolower(c) == IF c >= 65 /\ c <= 90 THEN c + 32 ELSE c

RECURSIVE stringHashFrom(_, _, _, _)
stringHashFrom(str, seed, i, out) ==
    IF i > Len(str) THEN out
    ELSE stringHashFrom(str, seed, i + 1, out * seed + tolower(str[i]))

stringHash(str, seed) == stringHashFrom(str, seed, 1, 0)

\* the three hashes a name is known by
Key(name) == <<stringHash(name, HASH_SEED0), stringHash(name, HASH_SEED1),
               stringHash(name, HASH_SEED2)>>

EntryKey(e) == <<e.hash0, e.hash1, e.hash2>>

Keys == { Key(n) : n \in Names }

Deleted(e) == (e.flag % (2 * FILE_FLAG_DELETED)) >= FILE_FLAG_DELETED

\* flag |= FILE_FLAG_DELETED
SetDeleted(e) == IF Deleted(e) THEN e ELSE [e EXCEPT !.flag = @ + FILE_FLAG_DELETED]

(***************************************************************************)
(* Cells of the stream.                                                    *)
(***************************************************************************)
DataCell(b) == [k |-> "data", v |-> b]
PadCell == [k |-> "pad", v |-> 0]
HdrCell(h) == [k |-> "hdr", v |-> h]
EntCell(e) == [k |-> "ent", v |-> e]
ChrCell(c) == [k |-> "chr", v |-> c]
Newline == 10

\* seek to pos, write cells; a write past the end extends the file (a hole reads 0)
StreamWrite(s, pos, cells) ==
    IF cells = << >> THEN s
    ELSE [i \in 1..Max(Len(s), pos + Len(cells)) |->
            IF i > pos /\ i <= pos + Len(cells) THEN cells[i - pos]
            ELSE IF i <= Len(s) THEN s[i]
            ELSE DataCell(0)]

\* the cells [pos, pos + n) of the stream; past the end the buffer keeps its zeros
StreamRead(s, pos, n) ==
    [i \in 1..n |-> IF pos + i <= Len(s) THEN s[pos + i] ELSE DataCell(0)]

\* _chsize_s: cut or zero-extend the file to n cells
Truncate(s, n) == [i \in 1..n |-> IF i <= Len(s) THEN s[i] ELSE DataCell(0)]

Pads(n) == [i \in 1..n |-> PadCell]

HeaderCells(h) == <<HdrCell(h)>> \o Pads(sizeofPackageHeader - 1)

EntryCells(e) == <<EntCell(e)>> \o Pads(sizeofFileEntry - 1)

NameCells(name) == [i \in 1..(Len(name) + 1) |->
                      IF i <= Len(name) THEN ChrCell(name[i]) ELSE ChrCell(Newline)]

DataCells(content) == [i \in 1..Len(content) |-> DataCell(content[i])]

RECURSIVE Concat(_)
Concat(seqs) == IF seqs = << >> THEN << >> ELSE Head(seqs) \o Concat(Tail(seqs))

(***************************************************************************)
(* Hash index.                                                             *)
(***************************************************************************)
\* buildHashTable's sizing loop; 0 stands for "return false"
RECURSIVE GrowTableSize(_, _)
GrowTableSize(tableSize, fileCount) ==
    IF tableSize < fileCount
    THEN IF tableSize >= MAX_HASH_TABLE_SIZE THEN 0
         ELSE GrowTableSize(tableSize * 2, fileCount)
    ELSE tableSize * 2

\* the linear probe of buildHashTable for an empty slot, wrapping
RECURSIVE FreeSlot(_, _)
FreeSlot(table, index) ==
    IF table[index + 1] = -1 THEN index
    ELSE FreeSlot(table, IF index + 1 >= Len(table) THEN 0 ELSE index + 1)

RECURSIVE FillTable(_, _, _, _)
FillTable(table, entries, i, fileCount) ==
    IF i >= fileCount THEN table
    ELSE LET slot == FreeSlot(table, entries[i + 1].hash0 % Len(table))
         IN  FillTable([table EXCEPT ![slot + 1] = i], entries, i + 1, fileCount)

\* buildHashTable: on failure m_hashTable is left as it was
buildHashTable(table, header, entries) ==
    LET tableSize == GrowTableSize(MIN_HASH_TABLE_SIZE \div 2, header.fileCount)
    IN  IF tableSize = 0 THEN [ok |-> FALSE, table |-> table]
        ELSE [ok |-> TRUE,
              table |-> FillTable([i \in 1..tableSize |-> -1], entries, 0, header.fileCount)]

\* getFileIndex on an empty m_hashTable divides by zero: the process dies
CRASH == -2

(***************************************************************************)
(* getFileIndex, as the set of values the call can return.  The set is a   *)
(* singleton except when a slot holds an index past the end of the entry   *)
(* table (a stale index after a failed rebuild): the record read there is  *)
(* whatever the vector's spare storage holds, so the comparison can match  *)
(* a live record, match a deleted one, or fail.  An empty set stands for a *)
(* probe that never meets an empty slot (the loop does not end).           *)
(***************************************************************************)
RECURSIVE ProbeFrom(_, _, _, _, _)
ProbeFrom(table, entries, key, hashIndex, steps) ==
    LET fileIndex == table[hashIndex + 1]
        next == IF hashIndex + 1 >= Len(table) THEN 0 ELSE hashIndex + 1
    IN  IF fileIndex < 0 THEN {-1}
        ELSE IF steps >= Len(table) THEN {}
        ELSE IF fileIndex >= Len(entries)
             THEN {fileIndex, -1} \cup ProbeFrom(table, entries, key, next, steps + 1)
        ELSE IF EntryKey(entries[fileIndex + 1]) = key
             THEN IF Deleted(entries[fileIndex + 1]) THEN {-1} ELSE {fileIndex}
        ELSE ProbeFrom(table, entries, key, next, steps + 1)

getFileIndexIn(table, entries, filename) ==
    IF Len(table) = 0 THEN {CRASH}
    ELSE ProbeFrom(table, entries, Key(filename), Key(filename)[1] % Len(table), 0)

getFileIndex(filename) == getFileIndexIn(m_hashTable, m_fileEntries, filename)

\* fixHashTable: every stored index >= index moves up by one
fixHashTable(table, index) ==
    [i \in 1..Len(table) |-> IF table[i] >= index THEN table[i] + 1 ELSE table[i]]

(***************************************************************************)
(* insertFile: first-fit over the gaps before live entries, else append.   *)
(***************************************************************************)
\* thisEntry.byteOffset - lastEnd >= entry.fileSize, computed in u64: when
\* byteOffset < lastEnd the difference wraps to at least 2^64 - lastEnd, which
\* is above every u32 fileSize
GapFits(byteOffset, lastEnd, fileSize) ==
    IF byteOffset >= lastEnd THEN byteOffset - lastEnd >= fileSize ELSE TRUE

\* the scan loop: where it stops ([found, fileIndex, lastEnd])
RECURSIVE ScanGap(_, _, _, _)
ScanGap(entries, fileSize, fileIndex, lastEnd) ==
    IF fileIndex >= Len(entries)
    THEN [found |-> FALSE, fileIndex |-> fileIndex, lastEnd |-> lastEnd]
    ELSE LET thisEntry == entries[fileIndex + 1]
         IN  IF Deleted(thisEntry)
             THEN ScanGap(entries, fileSize, fileIndex + 1, lastEnd)
             ELSE IF GapFits(thisEntry.byteOffset, lastEnd, fileSize)
             THEN [found |-> TRUE, fileIndex |-> fileIndex, lastEnd |-> lastEnd]
             ELSE ScanGap(entries, fileSize, fileIndex + 1,
                          thisEntry.byteOffset + thisEntry.fileSize)

\* vector::insert(begin() + index, x)
InsertAt(seq, index, x) ==
    SubSeq(seq, 1, index) \o <<x>> \o SubSeq(seq, index + 1, Len(seq))

\* the offset insertFile gives an entry appended at the end
AppendOffset(entries) ==
    IF entries = << >> THEN sizeofPackageHeader
    ELSE entries[Len(entries)].byteOffset + entries[Len(entries)].fileSize

insertFile(header, entries, names, table, entry, filename) ==
    LET scan == ScanGap(entries, entry.fileSize, 0, header.headerSize)
    IN  IF scan.found
        THEN LET e == [entry EXCEPT !.byteOffset = scan.lastEnd]
             IN  [header |-> header,
                  entries |-> InsertAt(entries, scan.fileIndex, e),
                  names |-> InsertAt(names, scan.fileIndex, filename),
                  table |-> fixHashTable(table, scan.fileIndex),
                  entry |-> e,
                  index |-> scan.fileIndex]
        ELSE LET e == [entry EXCEPT !.byteOffset = AppendOffset(entries)]
             IN  [header |-> [header EXCEPT !.fileEntryOffset = e.byteOffset + e.fileSize],
                  entries |-> Append(entries, e),
                  names |-> Append(names, filename),
                  table |-> table,
                  entry |-> e,
                  index |-> Len(entries)]

(***************************************************************************)
(* Loading: readHeader, readFileEntries, readFilenames, the constructor.   *)
(***************************************************************************)
ZeroHeader == [sign |-> 0, version |-> 0, headerSize |-> 0, fileEntryOffset |-> 0,
               fileEntrySize |-> 0, fileCount |-> 0, filenameOffset |-> 0,
               filenameSize |-> 0]

ZeroEntry == [hash0 |-> 0, hash1 |-> 0, hash2 |-> 0, byteOffset |-> 0,
              fileSize |-> 0, flag |-> 0]

\* a character read from a cell that holds no name character
GarbageChar == 63

readHeader(stream, readonly) ==
    IF Len(stream) < sizeofPackageHeader \/ stream[1].k # "hdr"
    THEN [ok |-> FALSE, header |-> ZeroHeader, readonly |-> readonly]
    ELSE LET h == stream[1].v
             packageSize == Len(stream)
         IN  IF \/ h.sign # PACKAGE_FILE_SIGN
                \/ h.headerSize < sizeofPackageHeader
                \/ h.fileEntrySize < sizeofFileEntry
                \/ h.fileEntryOffset < h.headerSize
                \/ h.fileCount * h.fileEntrySize + h.fileEntryOffset > packageSize
                \/ h.filenameOffset + h.filenameSize > packageSize
             THEN [ok |-> FALSE, header |-> h, readonly |-> readonly]
             ELSE [ok |-> TRUE, header |-> h,
                   readonly |-> (readonly \/ h.version # CURRENT_VERSION)]

\* the record read at pos; a position that holds no entry record reads as zeros
\* (flush writes the table where the header says it is, readHeader bounds it by
\* the file size)
ReadEntry(stream, pos) ==
    IF pos + 1 <= Len(stream) /\ stream[pos + 1].k = "ent" THEN stream[pos + 1].v
    ELSE ZeroEntry

Zeros(n) == [i \in 1..n |-> ZeroEntry]

RECURSIVE ReadEntriesFrom(_, _, _, _, _)
ReadEntriesFrom(stream, h, i, nextOffset, acc) ==
    IF i >= h.fileCount THEN [ok |-> TRUE, entries |-> acc]
    ELSE IF nextOffset >= h.fileEntryOffset
    THEN [ok |-> FALSE, entries |-> acc \o Zeros(h.fileCount - i)]
    ELSE LET entry == ReadEntry(stream, h.fileEntryOffset + i * h.fileEntrySize)
         IN  IF entry.byteOffset < nextOffset
             THEN [ok |-> FALSE, entries |-> acc \o <<entry>> \o Zeros(h.fileCount - i - 1)]
             ELSE ReadEntriesFrom(stream, h, i + 1, entry.byteOffset + entry.fileSize,
                                  Append(acc, entry))

readFileEntries(stream, h) == ReadEntriesFrom(stream, h, 0, h.headerSize, << >>)

\* std::getline: the characters up to the next newline or the end of the file
RECURSIVE ReadLine(_, _, _)
ReadLine(stream, pos, acc) ==
    IF pos >= Len(stream) THEN [name |-> acc, next |-> pos]
    ELSE LET c == stream[pos + 1]
         IN  IF c.k = "chr" /\ c.v = Newline THEN [name |-> acc, next |-> pos + 1]
             ELSE ReadLine(stream, pos + 1,
                           Append(acc, IF c.k = "chr" THEN c.v ELSE GarbageChar))

RECURSIVE ReadLines(_, _, _, _)
ReadLines(stream, pos, n, acc) ==
    IF n = 0 THEN acc
    ELSE LET line == ReadLine(stream, pos, << >>)
         IN  ReadLines(stream, line.next, n - 1, Append(acc, line.name))

readFilenames(stream, h, entries, readonly) ==
    IF entries = << >> \/ readonly THEN << >>
    ELSE ReadLines(stream, h.filenameOffset, Len(entries), << >>)

\* Package::Package: the instance the constructor leaves for a file and a mode
Package(stream, readonly) ==
    LET rh == readHeader(stream, readonly)
        re == readFileEntries(stream, rh.header)
    IN  IF ~rh.ok
        THEN [valid |-> FALSE, readonly |-> rh.readonly, header |-> rh.header,
              entries |-> << >>, names |-> << >>, table |-> << >>]
        ELSE IF ~re.ok
        THEN [valid |-> FALSE, readonly |-> rh.readonly, header |-> rh.header,
              entries |-> re.entries, names |-> << >>, table |-> << >>]
        ELSE [valid |-> TRUE, readonly |-> rh.readonly, header |-> rh.header,
              entries |-> re.entries,
              names |-> readFilenames(stream, rh.header, re.entries, rh.readonly),
              table |-> buildHashTable(<< >>, rh.header, re.entries).table]

(***************************************************************************)
(* flush and defrag, as functions of the instance.                         *)
(***************************************************************************)
\* the indices (1-based) of the records flush keeps
RECURSIVE LiveIndices(_, _)
LiveIndices(entries, i) ==
    IF i > Len(entries) THEN << >>
    ELSE IF Deleted(entries[i]) THEN LiveIndices(entries, i + 1)
    ELSE <<i>> \o LiveIndices(entries, i + 1)

Pick(seq, idx) == [j \in 1..Len(idx) |-> seq[idx[j]]]

RECURSIVE SumLen(_)
SumLen(seqs) == IF seqs = << >> THEN 0 ELSE Len(Head(seqs)) + SumLen(Tail(seqs))

\* flush that erases the deleted records but not their names
flushBody_KeepsNames(stream, header, entries, names, table) ==
    LET keep == LiveIndices(entries, 1)
        es == Pick(entries, keep)
        entryCells == Concat([j \in 1..Len(es) |-> EntryCells(es[j])])
        nameCells == Concat([j \in 1..Len(names) |-> NameCells(names[j])])
        s1 == StreamWrite(stream, header.fileEntryOffset, entryCells)
        s2 == StreamWrite(s1, header.fileEntryOffset + Len(entryCells), nameCells)
        h == [header EXCEPT !.filenameSize = Len(nameCells)]
        s3 == StreamWrite(s2, 0, HeaderCells(h))
        built == buildHashTable(table, h, es)
    IN  [stream |-> s3, header |-> h, entries |-> es, names |-> names,
         table |-> built.table, built |-> built.ok]

\* the body of flush past its guard
flushBody(stream, header, entries, names, table) ==
    LET keep == LiveIndices(entries, 1)
        es == Pick(entries, keep)
        ns == Pick(names, keep)
        entryCells == Concat([j \in 1..Len(es) |-> EntryCells(es[j])])
        nameCells == Concat([j \in 1..Len(ns) |-> NameCells(ns[j])])
        s1 == StreamWrite(stream, header.fileEntryOffset, entryCells)
        s2 == StreamWrite(s1, header.fileEntryOffset + Len(entryCells), nameCells)
        h == [header EXCEPT !.filenameSize = Len(nameCells)]
        s3 == StreamWrite(s2, 0, HeaderCells(h))
        built == buildHashTable(table, h, es)
    IN  [stream |-> s3, header |-> h, entries |-> es, names |-> ns,
         table |-> built.table, built |-> built.ok]

\* the relocation loop of defrag.  zero: the stream as it was when the first entry
\* of length 0 had to be moved (<< >> when none had): there the code takes
\* &tempBuffer[0] of an empty vector
RECURSIVE DefragFrom(_, _, _, _, _)
DefragFrom(stream, entries, i, nextPos, zero) ==
    IF i > Len(entries)
    THEN [stream |-> stream, entries |-> entries, nextPos |-> nextPos, zero |-> zero]
    ELSE LET entry == entries[i]
         IN  IF entry.byteOffset # nextPos
             THEN DefragFrom(StreamWrite(stream, nextPos,
                                         StreamRead(stream, entry.byteOffset, entry.fileSize)),
                             [entries EXCEPT ![i].byteOffset = nextPos],
                             i + 1, nextPos + entry.fileSize,
                             IF entry.fileSize = 0 /\ zero = << >> THEN <<stream>> ELSE zero)
             ELSE DefragFrom(stream, entries, i + 1, nextPos + entry.fileSize, zero)

\* defrag that leaves the file at its old length
defragBody_NoChsize(stream, header, entries, names, table) ==
    LET moved == DefragFrom(stream, entries, 1, header.headerSize, << >>)
        h1 == [header EXCEPT !.fileEntryOffset = moved.nextPos,
                             !.filenameOffset = moved.nextPos + sizeofFileEntry * header.fileCount]
        f == flushBody(moved.stream, h1, moved.entries, names, table)
    IN  [stream |-> f.stream,
         header |-> f.header, entries |-> f.entries, names |-> f.names,
         table |-> f.table, zero |-> moved.zero]

\* the body of defrag past its guard
defragBody(stream, header, entries, names, table) ==
    LET moved == DefragFrom(stream, entries, 1, header.headerSize, << >>)
        h1 == [header EXCEPT !.fileEntryOffset = moved.nextPos,
                             !.filenameOffset = moved.nextPos + sizeofFileEntry * header.fileCount]
        f == flushBody(moved.stream, h1, moved.entries, names, table)
    IN  [stream |-> Truncate(f.stream, f.header.filenameOffset + f.header.filenameSize),
         header |-> f.header, entries |-> f.entries, names |-> f.names,
         table |-> f.table, zero |-> moved.zero]

(***************************************************************************)
(* The package files the model starts from, all well-formed: two empty     *)
(* ones (the second with a header larger than PackageHeader), one with two *)
(* entries and a gap between them, one with an empty entry behind a gap,   *)
(* and one of another format version.                                      *)
(***************************************************************************)
NewEntry(filename, fileSize) ==
    [hash0 |-> stringHash(filename, HASH_SEED0),
     hash1 |-> stringHash(filename, HASH_SEED1),
     hash2 |-> stringHash(filename, HASH_SEED2),
     byteOffset |-> 0, fileSize |-> fileSize, flag |-> 0]

\* a file with the given header size and version holding the items
\* (<<name, gap before, content>>) in order and tailGap free cells after them
RECURSIVE PlaceItems(_, _, _, _, _)
PlaceItems(items, pos, stream, entries, names) ==
    IF items = << >> THEN [stream |-> stream, entries |-> entries, names |-> names, pos |-> pos]
    ELSE LET it == Head(items)
             off == pos + it[2]
             e == [NewEntry(it[1], Len(it[3])) EXCEPT !.byteOffset = off]
         IN  PlaceItems(Tail(items), off + Len(it[3]),
                        StreamWrite(Truncate(stream, off), off, DataCells(it[3])),
                        Append(entries, e), Append(names, it[1]))

PackageFile(headerSize, version, items, tailGap) ==
    LET placed == PlaceItems(items, headerSize, Truncate(<< >>, headerSize), << >>, << >>)
        feo == placed.pos + tailGap
        h == [sign |-> PACKAGE_FILE_SIGN, version |-> version, headerSize |-> headerSize,
              fileEntryOffset |-> feo, fileEntrySize |-> sizeofFileEntry,
              fileCount |-> Len(items),
              filenameOffset |-> feo + sizeofFileEntry * Len(items),
              filenameSize |-> 0]
    IN  flushBody(Truncate(placed.stream, feo), h, placed.entries, placed.names, << >>).stream

InitFiles ==
    { PackageFile(sizeofPackageHeader, CURRENT_VERSION, << >>, 0),
      PackageFile(sizeofPackageHeader + 1, CURRENT_VERSION, << >>, 0),
      PackageFile(sizeofPackageHeader, CURRENT_VERSION,
                  << <<(<<97, 64>>), 0, <<4>>>>, <<(<<98, 33>>), 1, <<5>>>> >>, 0),
      PackageFile(sizeofPackageHeader, CURRENT_VERSION, << <<(<<98, 33>>), 1, << >>>> >>, 0),
      PackageFile(sizeofPackageHeader, CURRENT_VERSION + 1, << <<(<<97>>), 1, <<1>>>> >>, 0) }

NoContent == <<-1>>

NoneAdded == [key \in Keys |-> NoContent]

Call(op, name, flag, val) == [op |-> op, val |-> val]

Init ==
    \E file \in InitFiles, readonly \in BOOLEAN :
        LET p == Package(file, readonly)
        IN  /\ m_stream = file
            /\ valid = p.valid
            /\ m_readonly = p.readonly
            /\ m_dirty = FALSE
            /\ m_header = p.header
            /\ m_fileEntries = p.entries
            /\ m_filenames = p.names
            /\ m_hashTable = p.table
            /\ crashed = FALSE
            /\ added = NoneAdded
            /\ session = "adds"
            /\ ops = 0
            /\ committed = [i \in 1..Len(p.entries) |-> TRUE]
            /\ ret = Call("open", << >>, 0, IF p.valid THEN "true" ELSE "false")

(***************************************************************************)
(* The public operations.  Each is called on a usable instance: one whose  *)
(* valid() is true, in a process that is still running.                    *)
(***************************************************************************)
Callable == valid /\ ~crashed

HasFlag(flag, bit) == (flag % (2 * bit)) >= bit

\* a call that returns without touching the instance
Returns(op, name, flag, val) ==
    /\ ret' = Call(op, name, flag, val)
    /\ UNCHANGED <<m_stream, valid, m_readonly, m_dirty, m_header, m_fileEntries,
                   m_filenames, m_hashTable, crashed, added, session, ops, committed>>

\* a call in which the process dies
Crashes(op, name, flag, stream) ==
    /\ crashed' = TRUE
    /\ m_stream' = stream
    /\ ret' = Call(op, name, flag, "crash")
    /\ UNCHANGED <<valid, m_readonly, m_dirty, m_header, m_fileEntries,
                   m_filenames, m_hashTable, added, session, ops, committed>>

\* removeFile past its guards, on the entry getFileIndex returned (a write to an
\* index past the end of the vector lands in its spare storage)
removeBody(header, entries, fileIndex) ==
    LET h == [header EXCEPT !.fileCount = @ - 1]
    IN  [header |-> [h EXCEPT !.filenameOffset =
                         h.fileEntryOffset + sizeofFileEntry * h.fileCount],
         entries |-> IF fileIndex < Len(entries)
                     THEN [entries EXCEPT ![fileIndex + 1] = SetDeleted(@)]
                     ELSE entries]

\* addFile from the FileEntry initialisation on: insertFile, the content write
\* at the offset it chose, the header update
addBody(stream, header, entries, names, table, content, filename) ==
    LET ins == insertFile(header, entries, names, table,
                          NewEntry(filename, Len(content)), filename)
        h == [ins.header EXCEPT !.fileCount = @ + 1]
    IN  [stream |-> StreamWrite(stream, ins.entry.byteOffset, DataCells(content)),
         header |-> [h EXCEPT !.filenameOffset =
                        h.fileEntryOffset + sizeofFileEntry * h.fileCount],
         entries |-> ins.entries, names |-> ins.names, table |-> ins.table,
         entry |-> ins.entry, index |-> ins.index]

\* hasFile without the dirty gate
hasFileResults_NoGate(dirty, table, entries, filename) ==
    { IF r = CRASH THEN "crash" ELSE IF r >= 0 THEN "true" ELSE "false" :
        r \in getFileIndexIn(table, entries, filename) }

\* what hasFile can return (or "crash")
hasFileResults(dirty, table, entries, filename) ==
    IF dirty THEN {"false"}
    ELSE { IF r = CRASH THEN "crash" ELSE IF r >= 0 THEN "true" ELSE "false" :
             r \in getFileIndexIn(table, entries, filename) }

\* what openFile can return: "null", or "file" for a File accessor (or "crash")
openFileResults(dirty, table, entries, filename) ==
    IF dirty THEN {"null"}
    ELSE { IF r = CRASH THEN "crash" ELSE IF r >= 0 THEN "file" ELSE "null" :
             r \in getFileIndexIn(table, entries, filename) }

hasFile(filename) ==
    /\ Callable
    /\ \E v \in hasFileResults(m_dirty, m_hashTable, m_fileEntries, filename) :
          IF v = "crash" THEN Crashes("hasFile", filename, 0, m_stream)
          ELSE Returns("hasFile", filename, 0, v)

openFile(filename) ==
    /\ Callable
    /\ \E v \in openFileResults(m_dirty, m_hashTable, m_fileEntries, filename) :
          IF v = "crash" THEN Crashes("openFile", filename, 0, m_stream)
          ELSE Returns("openFile", filename, 0, v)

addFile(externalFilename, filename, flag) ==
    /\ Callable
    /\ IF m_readonly \/ ~ExtExists(externalFilename)
       THEN Returns("addFile", filename, flag, "false")
       ELSE \E r \in getFileIndex(filename) :
              IF r = CRASH THEN Crashes("addFile", filename, flag, m_stream)
              ELSE IF r >= 0 /\ ~HasFlag(flag, FLAG_REPLACE)
              THEN Returns("addFile", filename, flag, "false")
              ELSE LET content == ExtContent(externalFilename)
                       removed == IF r >= 0 THEN removeBody(m_header, m_fileEntries, r)
                                  ELSE [header |-> m_header, entries |-> m_fileEntries]
                       ins == addBody(m_stream, removed.header, removed.entries,
                                      m_filenames, m_hashTable, content, filename)
                   IN  /\ ops < MaxOps
                       /\ ops' = ops + 1
                       /\ Len(m_fileEntries) < MaxEntries
                       /\ ins.entry.byteOffset + Len(content) <= MaxPos
                       /\ m_stream' = ins.stream
                       /\ m_header' = ins.header
                       /\ m_fileEntries' = ins.entries
                       /\ m_filenames' = ins.names
                       /\ m_hashTable' = ins.table
                       /\ m_dirty' = TRUE
                       /\ added' = [added EXCEPT ![Key(filename)] = content]
                       /\ committed' = InsertAt(committed, ins.index, FALSE)
                       /\ ret' = Call("addFile", filename, flag, "true")
                       /\ UNCHANGED <<valid, m_readonly, crashed, session>>

removeFile(filename) ==
    /\ Callable
    /\ IF m_readonly THEN Returns("removeFile", filename, 0, "false")
       ELSE \E r \in getFileIndex(filename) :
              IF r = CRASH THEN Crashes("removeFile", filename, 0, m_stream)
              ELSE IF r < 0 THEN Returns("removeFile", filename, 0, "false")
              ELSE LET removed == removeBody(m_header, m_fileEntries, r)
                   IN  /\ ops < MaxOps
                       /\ ops' = ops + 1
                       /\ m_fileEntries' = removed.entries
                       /\ m_header' = removed.header
                       /\ m_dirty' = TRUE
                       /\ added' = [added EXCEPT ![Key(filename)] = NoContent]
                       /\ session' = "mixed"
                       /\ ret' = Call("removeFile", filename, 0, "true")
                       /\ UNCHANGED <<m_stream, valid, m_readonly, m_filenames,
                                      m_hashTable, crashed, committed>>

flush ==
    /\ Callable
    /\ IF m_readonly \/ ~m_dirty THEN Returns("flush", << >>, 0, "void")
       ELSE LET f == flushBody(m_stream, m_header, m_fileEntries, m_filenames, m_hashTable)
            IN  /\ ops < MaxOps
                /\ ops' = ops + 1
                /\ m_stream' = f.stream
                /\ m_header' = f.header
                /\ m_fileEntries' = f.entries
                /\ m_filenames' = f.names
                /\ m_hashTable' = f.table
                /\ m_dirty' = FALSE
                /\ committed' = [i \in 1..Len(f.entries) |-> TRUE]
                /\ ret' = Call("flush", << >>, 0, "void")
                /\ UNCHANGED <<valid, m_readonly, crashed, added, session>>

defrag ==
    /\ Callable
    /\ IF m_readonly \/ m_dirty THEN Returns("defrag", << >>, 0, "false")
       ELSE LET d == defragBody(m_stream, m_header, m_fileEntries, m_filenames, m_hashTable)
            IN  \/ /\ d.zero # << >>
                   /\ Crashes("defrag", << >>, 0, d.zero[1])
                \/ /\ ops < MaxOps
                   /\ ops' = ops + 1
                   /\ m_stream' = d.stream
                   /\ m_header' = d.header
                   /\ m_fileEntries' = d.entries
                   /\ m_filenames' = d.names
                   /\ m_hashTable' = d.table
                   /\ m_dirty' = FALSE
                   /\ committed' = [i \in 1..Len(d.entries) |-> TRUE]
                   /\ session' = "mixed"
                   /\ ret' = Call("defrag", << >>, 0, "true")
                   /\ UNCHANGED <<valid, m_readonly, crashed, added>>

\* ~Package (flush, close) followed by a new Package on the same file
reopen(readonly) ==
    /\ Callable
    /\ LET stream == IF m_readonly \/ ~m_dirty THEN m_stream
                     ELSE flushBody(m_stream, m_header, m_fileEntries, m_filenames,
                                    m_hashTable).stream
           p == Package(stream, readonly)
       IN  /\ ops < MaxOps
           /\ ops' = ops + 1
           /\ m_stream' = stream
           /\ valid' = p.valid
           /\ m_readonly' = p.readonly
           /\ m_dirty' = FALSE
           /\ m_header' = p.header
           /\ m_fileEntries' = p.entries
           /\ m_filenames' = p.names
           /\ m_hashTable' = p.table
           /\ added' = NoneAdded
           /\ committed' = [i \in 1..Len(p.entries) |-> TRUE]
           /\ session' = "adds"
           /\ ret' = Call("open", << >>, 0, IF p.valid THEN "true" ELSE "false")
           /\ UNCHANGED crashed

Flags == {0, FLAG_REPLACE}

Next ==
    \/ \E n \in Names : hasFile(n)
    \/ \E n \in Names : openFile(n)
    \/ \E x \in ExtFiles, n \in Names, f \in Flags : addFile(x, n, f)
    \/ \E n \in Names : removeFile(n)
    \/ flush
    \/ defrag
    \/ \E ro \in BOOLEAN : reopen(ro)

Spec == Init /\ [][Next]_vars

(***************************************************************************)
(* Vocabulary of the properties.                                           *)
(***************************************************************************)
LiveAt(entries, i) == ~Deleted(entries[i])

\* the positions (1-based) of the live entries carrying the name's three hashes
LiveNamed(entries, filename) ==
    { i \in 1..Len(entries) : LiveAt(entries, i) /\ EntryKey(entries[i]) = Key(filename) }

SameCell(c, d) == c.k = d.k /\ c.v = d.v

SameCells(cs, ds) == Len(cs) = Len(ds) /\ \A i \in 1..Len(cs) : SameCell(cs[i], ds[i])

\* the cells a File accessor for the entry reads
FileCells(stream, entry) == StreamRead(stream, entry.byteOffset, entry.fileSize)

RangesOverlap(e1, e2) ==
    /\ e1.fileSize > 0
    /\ e2.fileSize > 0
    /\ e1.byteOffset < e2.byteOffset + e2.fileSize
    /\ e2.byteOffset < e1.byteOffset + e1.fileSize

RECURSIVE SumSizes(_)
SumSizes(entries) ==
    IF entries = << >> THEN 0 ELSE Head(entries).fileSize + SumSizes(Tail(entries))

NoTombstones(entries) == \A i \in 1..Len(entries) : LiveAt(entries, i)

(***************************************************************************)
(* C1: Round trip.  After any sequence of successful addFile calls on a    *)
(* valid read-write package followed by flush, a new Package on the file   *)
(* is valid and openFile of each added name yields an accessor whose byte  *)
(* range holds exactly the content added under that name.                  *)
(***************************************************************************)
C1_RoundTrip ==
    (Callable /\ ~m_readonly /\ ~m_dirty /\ session = "adds" /\ added # NoneAdded) =>
        LET p == Package(m_stream, FALSE)
        IN  /\ p.valid
            /\ \A n \in Names :
                 added[Key(n)] # NoContent =>
                   \A r \in getFileIndexIn(p.table, p.entries, n) :
                      /\ r >= 0
                      /\ r < Len(p.entries)
                      /\ SameCells(FileCells(m_stream, p.entries[r + 1]),
                                   DataCells(added[Key(n)]))

(***************************************************************************)
(* C2: In every state reachable from a well-formed package the byte ranges *)
(* of any two distinct live entries do not overlap.                        *)
(***************************************************************************)
C2_NoOverlap ==
    valid =>
        \A i, j \in 1..Len(m_fileEntries) :
            (i < j /\ LiveAt(m_fileEntries, i) /\ LiveAt(m_fileEntries, j)) =>
                ~RangesOverlap(m_fileEntries[i], m_fileEntries[j])

(***************************************************************************)
(* C3: Dirty gate.  A successful addFile or removeFile leaves the dirty    *)
(* flag set, and while it is set hasFile returns false and openFile        *)
(* returns no accessor for every name, untouched committed entries         *)
(* included.                                                               *)
(***************************************************************************)
C3_DirtyGate ==
    Callable =>
        /\ (ret.op \in {"addFile", "removeFile"} /\ ret.val = "true") => m_dirty
        /\ m_dirty =>
             \A n \in Names :
                /\ hasFileResults(m_dirty, m_hashTable, m_fileEntries, n) = {"false"}
                /\ openFileResults(m_dirty, m_hashTable, m_fileEntries, n) = {"null"}

\* dirty after a removeFile, with a committed live entry the index still finds
C3_Witness ==
    /\ Callable
    /\ m_dirty
    /\ ret = Call("removeFile", << >>, 0, "true")
    /\ \E n \in Names : \E r \in getFileIndex(n) : r >= 0

(***************************************************************************)
(* C4: addFile without REPLACE returns failure and adds nothing whenever a *)
(* live entry with that name is in the entry table, committed or not yet   *)
(* flushed.                                                                *)
(***************************************************************************)
C4_DuplicateRefused ==
    [][\A n \in Names :
          (LiveNamed(m_fileEntries, n) # {} /\ \E x \in ExtFiles : addFile(x, n, 0))
             => (ret'.val = "false" /\ UNCHANGED store)]_vars

(***************************************************************************)
(* C5: On a read-write package removeFile returns true and tombstones the  *)
(* matching entry if and only if a live entry with that name is in the     *)
(* entry table at the time of the call, flushed or not.                    *)
(***************************************************************************)
C5_RemoveIffLive ==
    [][\A n \in Names :
          (~m_readonly /\ removeFile(n)) =>
             /\ ret'.val = "true" <=> LiveNamed(m_fileEntries, n) # {}
             /\ ret'.val = "true" => LiveNamed(m_fileEntries', n) # LiveNamed(m_fileEntries, n)]_vars

(***************************************************************************)
(* C6: After a successful defrag the entries are tightly packed: the first *)
(* starts at the header end, each next one where the previous ends, the    *)
(* entry table right after the last content byte, the name blob right      *)
(* after the entry table, and the file is exactly header + content + entry *)
(* table + name blob long.                                                 *)
(***************************************************************************)
Packed ==
    LET n == Len(m_fileEntries)
    IN  /\ NoTombstones(m_fileEntries)
        /\ n > 0 => m_fileEntries[1].byteOffset = m_header.headerSize
        /\ \A i \in 1..(n - 1) :
              m_fileEntries[i + 1].byteOffset =
                 m_fileEntries[i].byteOffset + m_fileEntries[i].fileSize
        /\ m_header.fileEntryOffset = m_header.headerSize + SumSizes(m_fileEntries)
        /\ m_header.filenameOffset =
              m_header.fileEntryOffset + m_header.fileCount * sizeofFileEntry
        /\ m_header.filenameSize = SumLen(m_filenames) + Len(m_filenames)
        /\ Len(m_stream) = m_header.headerSize + SumSizes(m_fileEntries)
                           + m_header.fileCount * sizeofFileEntry + m_header.filenameSize

RefusedByMode ==
    /\ (valid /\ m_header.version # CURRENT_VERSION) => m_readonly
    /\ (m_readonly /\ ret'.op \in {"addFile", "removeFile", "defrag"})
          => ret'.val = "false"
    /\ (m_dirty /\ ret'.op = "defrag") => ret'.val = "false"
    /\ (ret'.op \in {"addFile", "removeFile", "defrag"} /\ ret'.val = "false")
          => UNCHANGED store
    /\ (m_readonly /\ ret'.op = "flush") => UNCHANGED store

\* the refusals by name
RefusedByName ==
    \A n \in Names :
       /\ (LiveNamed(m_fileEntries, n) # {} /\ \E x \in ExtFiles : addFile(x, n, 0))
             => (ret'.val = "false" /\ UNCHANGED store)
       /\ (LiveNamed(m_fileEntries, n) = {} /\ removeFile(n))
             => (ret'.val = "false" /\ UNCHANGED store)

C7_RefusedUnchanged == [][RefusedByMode /\ RefusedByName]_vars

IndexCurrent ==
    /\ m_hashTable # << >>
    /\ \A i \in 1..Len(m_fileEntries) :
          Cardinality({ slot \in 1..Len(m_hashTable) : m_hashTable[slot] = i - 1 }) = 1
    /\ \A slot \in 1..Len(m_hashTable) : m_hashTable[slot] < Len(m_fileEntries)

C9_CapacityReported == (Callable /\ ~m_dirty) => IndexCurrent

(***************************************************************************)
(* C10: First fit.  On a table without tombstones addFile gives the new    *)
(* entry the offset lastEnd of the first gap (next live entry's offset     *)
(* minus lastEnd, scanning from the header end) that is at least as long   *)
(* as the entry, splicing entry and name at that table position, and       *)
(* appends after the last entry only when no gap fits.                     *)
(***************************************************************************)
\* the end of the content before table position i (1-based), scanning from the header end
LastEndBefore(header, entries, i) ==
    IF i = 1 THEN header.headerSize
    ELSE entries[i - 1].byteOffset + entries[i - 1].fileSize

\* the table positions whose gap holds fileSize cells
FittingGaps(header, entries, fileSize) ==
    { i \in 1..Len(entries) :
        entries[i].byteOffset - LastEndBefore(header, entries, i) >= fileSize }

Least(S) == CHOOSE i \in S : \A j \in S : i <= j

C10_FirstFit ==
    [][\A x \in ExtFiles, n \in Names, f \in Flags :
          (/\ NoTombstones(m_fileEntries)
           /\ addFile(x, n, f)
           /\ ret'.val = "true"
           /\ NoTombstones(m_fileEntries'))
          => LET size == Len(ExtContent(x))
                 gaps == FittingGaps(m_header, m_fileEntries, size)
             IN  IF gaps # {}
                 THEN /\ m_fileEntries' =
                            InsertAt(m_fileEntries, Least(gaps) - 1,
                                     [NewEntry(n, size) EXCEPT !.byteOffset =
                                         LastEndBefore(m_header, m_fileEntries, Least(gaps))])
                      /\ m_filenames' = InsertAt(m_filenames, Least(gaps) - 1, n)
                 ELSE /\ SubSeq(m_fileEntries', 1, Len(m_fileEntries)) = m_fileEntries
                      /\ EntryKey(m_fileEntries'[Len(m_fileEntries')]) = Key(n)
                      /\ m_filenames' = Append(m_filenames, n)]_vars

(***************************************************************************)
(* C11: Collision safety.  In a clean package whose live entries have      *)
(* distinct names, names of equal hash0 or of equal slot included, the     *)
(* lookup of each name returns the index of exactly the entry stored under *)
(* that name.                                                              *)
(***************************************************************************)
DistinctNames(entries) ==
    \A n \in Names : Cardinality(LiveNamed(entries, n)) <= 1

C11_CollisionSafe ==
    (Callable /\ ~m_dirty /\ DistinctNames(m_fileEntries)) =>
        \A n \in Names : \A i \in LiveNamed(m_fileEntries, n) :
            getFileIndex(n) = {i - 1}

(***************************************************************************)
(* C12: Immediately after flush returns on a dirty read-write package the  *)
(* entry table holds no tombstoned entry, getFileCount() equals the        *)
(* header's entry count and the number of names, the dirty flag is clear,  *)
(* and getFilenameByIndex(i), i = 0..count-1, returns the names of the     *)
(* live entries in ascending byte-offset order.                            *)
(***************************************************************************)
getFileCount == Len(m_fileEntries)

\* getFilenameByIndex: the name copied to the buffer, or "false"
getFilenameByIndex(index) ==
    IF index < Len(m_filenames) THEN m_filenames[index + 1] ELSE "false"

C12_AfterFlush ==
    [][(~m_readonly /\ m_dirty /\ flush) =>
          /\ NoTombstones(m_fileEntries')
          /\ getFileCount' = m_header'.fileCount
          /\ getFileCount' = Len(m_filenames')
          /\ ~m_dirty'
          /\ \A i \in 1..getFileCount' :
                /\ getFilenameByIndex(i - 1)' # "false"
                /\ Key(getFilenameByIndex(i - 1)') = EntryKey(m_fileEntries'[i])
                /\ i > 1 => m_fileEntries'[i - 1].byteOffset <= m_fileEntries'[i].byteOffset]_vars

(***************************************************************************)
(* C13: Space held by a tombstoned entry is not reusable before flush: an  *)
(* addFile made while tombstoned entries are in the table never gives the  *)
(* new entry a byte range that intersects the range of a tombstoned entry. *)
(***************************************************************************)
RemoveAt(seq, k) == SubSeq(seq, 1, k - 1) \o SubSeq(seq, k + 1, Len(seq))

Unflagged(entries) == [i \in 1..Len(entries) |-> [entries[i] EXCEPT !.flag = 0]]

\* table position k (1-based) of the new table holds the entry the step added
\* under the name: it is live, and without it the table is the old one up to flags
AddedAt(k, filename) ==
    /\ k \in 1..Len(m_fileEntries')
    /\ LiveAt(m_fileEntries', k)
    /\ EntryKey(m_fileEntries'[k]) = Key(filename)
    /\ Unflagged(RemoveAt(m_fileEntries', k)) = Unflagged(m_fileEntries)

C13_TombstoneSpaceKept ==
    [][\A x \in ExtFiles, n \in Names, f \in Flags :
          (addFile(x, n, f) /\ ret'.val = "true") =>
             \A k \in 1..Len(m_fileEntries') :
                AddedAt(k, n) =>
                   \A j \in 1..Len(m_fileEntries) :
                      Deleted(m_fileEntries[j]) =>
                         ~RangesOverlap(m_fileEntries'[k], m_fileEntries[j])]_vars

(***************************************************************************)
(* C14: When no gap fits, addFile appends the new entry at the end         *)
(* (offset + size) of the last live entry, or at the header end            *)
(* (headerSize) when the table has no entries, and sets the header's       *)
(* fileEntryOffset to the end of the new entry; trailing tombstoned        *)
(* entries make no difference.                                             *)
(***************************************************************************)
LiveEntries(entries) == Pick(entries, LiveIndices(entries, 1))

\* where the statement above puts an appended entry
EndOfLastLive(header, entries) ==
    LET live == LiveEntries(entries)
    IN  IF live = << >> THEN header.headerSize
        ELSE live[Len(live)].byteOffset + live[Len(live)].fileSize

C14_AppendAtEnd ==
    [][\A x \in ExtFiles, n \in Names :
          (/\ addFile(x, n, 0)
           /\ ret'.val = "true"
           /\ FittingGaps(m_header, LiveEntries(m_fileEntries), Len(ExtContent(x))) = {}
           /\ (m_fileEntries = << >> \/ LiveEntries(m_fileEntries) # << >>))
          => \A k \in 1..Len(m_fileEntries') :
                AddedAt(k, n) =>
                   /\ m_fileEntries'[k].byteOffset = EndOfLastLive(m_header, m_fileEntries)
                   /\ m_header'.fileEntryOffset =
                         EndOfLastLive(m_header, m_fileEntries) + Len(ExtContent(x))]_vars

(***************************************************************************)
(* C15: Index fix-up.  After any uncommitted addFile / removeFile calls    *)
(* every non-empty slot of the hash index holds a distinct valid position  *)
(* of the current entry table, and for every entry that was in the table   *)
(* at the last load or flush and is still live the lookup of its name      *)
(* returns the entry's current position.                                   *)
(***************************************************************************)
SlotsValid ==
    \A s1 \in 1..Len(m_hashTable) :
       m_hashTable[s1] >= 0 =>
          /\ m_hashTable[s1] < Len(m_fileEntries)
          /\ \A s2 \in 1..Len(m_hashTable) :
                (s2 # s1) => m_hashTable[s2] # m_hashTable[s1]

CommittedFound ==
    \A i \in 1..Len(m_fileEntries) :
       (committed[i] /\ LiveAt(m_fileEntries, i)) =>
          \A n \in Names :
             Key(n) = EntryKey(m_fileEntries[i]) => getFileIndex(n) = {i - 1}

C15_IndexFixup == Callable => (SlotsValid /\ CommittedFound)

(***************************************************************************)
(* The constructor on arbitrary files.  OpenFiles holds well-formed and    *)
(* damaged package files alike: every combination of a signature, a header *)
(* size, an entry-table offset, up to two entry records with offsets and   *)
(* sizes from small ranges, and a physical size that holds the entry table *)
(* or is one cell short of it.                                             *)
(***************************************************************************)
\* offsets stored in the files of OpenFiles range over 1..MaxOpenPos
MaxOpenPos == 5
\* file sizes stored in the entry records of OpenFiles range over 0..MaxOpenSize
MaxOpenSize == 2

OpenEntries ==
    { [NewEntry(<<97>>, size) EXCEPT !.byteOffset = off] :
         off \in 1..MaxOpenPos, size \in 0..MaxOpenSize }

OpenTables ==
    { << >> } \cup { <<e>> : e \in OpenEntries }
              \cup { <<e1, e2>> : e1 \in OpenEntries, e2 \in OpenEntries }

\* the file of physical size fileEntryOffset + table size - short with the
\* header and the entry records in place and zeros elsewhere
RawFile(sign, headerSize, fileEntryOffset, entries, short) ==
    LET tableEnd == fileEntryOffset + sizeofFileEntry * Len(entries)
        h == [sign |-> sign, version |-> CURRENT_VERSION, headerSize |-> headerSize,
              fileEntryOffset |-> fileEntryOffset, fileEntrySize |-> sizeofFileEntry,
              fileCount |-> Len(entries), filenameOffset |-> tableEnd - short,
              filenameSize |-> 0]
        s1 == StreamWrite(Truncate(<< >>, tableEnd), fileEntryOffset,
                          Concat([j \in 1..Len(entries) |-> EntryCells(entries[j])]))
    IN  StreamWrite(Truncate(s1, tableEnd - short), 0, HeaderCells(h))

OpenFiles ==
    { RawFile(sign, headerSize, fileEntryOffset, entries, short) :
         sign \in {PACKAGE_FILE_SIGN, PACKAGE_FILE_SIGN + 1},
         headerSize \in (sizeofPackageHeader - 1)..(sizeofPackageHeader + 1),
         fileEntryOffset \in sizeofPackageHeader..MaxOpenPos,
         entries \in OpenTables,
         short \in {0, 1} }

\* a file on disk and no Package on it yet
InitOpen ==
    /\ m_stream \in OpenFiles
    /\ valid = FALSE
    /\ m_readonly = FALSE
    /\ m_dirty = FALSE
    /\ m_header = ZeroHeader
    /\ m_fileEntries = << >>
    /\ m_filenames = << >>
    /\ m_hashTable = << >>
    /\ crashed = FALSE
    /\ added = NoneAdded
    /\ session = "adds"
    /\ ops = 0
    /\ committed = << >>
    /\ ret = Call("none", << >>, 0, "void")

\* Package::Package on the file
construct(readonly) ==
    /\ ret.op = "none"
    /\ LET p == Package(m_stream, readonly)
       IN  /\ valid' = p.valid
           /\ m_readonly' = p.readonly
           /\ m_header' = p.header
           /\ m_fileEntries' = p.entries
           /\ m_filenames' = p.names
           /\ m_hashTable' = p.table
           /\ committed' = [i \in 1..Len(p.entries) |-> TRUE]
           /\ ret' = Call("open", << >>, 0, IF p.valid THEN "true" ELSE "false")
           /\ UNCHANGED <<m_stream, m_dirty, crashed, added, session, ops>>

NextOpen == \E readonly \in BOOLEAN : construct(readonly)

SpecOpen == InitOpen /\ [][NextOpen]_vars

(***************************************************************************)
(* C16: Open-time validation.  The constructor leaves the instance valid   *)
(* only if the signature matches, fileEntryOffset >= headerSize, the entry *)
(* table and the name blob lie inside the physical size, the entry offsets *)
(* ascend without two ranges overlapping, and every entry's byte range,    *)
(* the last one's included, lies inside [headerSize, fileEntryOffset).     *)
(***************************************************************************)
EntryEnd(e) == e.byteOffset + e.fileSize

Consistent(h, entries, packageSize) ==
    /\ h.sign = PACKAGE_FILE_SIGN
    /\ h.fileEntryOffset >= h.headerSize
    /\ h.fileEntryOffset + h.fileCount * h.fileEntrySize <= packageSize
    /\ h.filenameOffset + h.filenameSize <= packageSize
    /\ \A i \in 1..Len(entries) :
          /\ entries[i].byteOffset >= h.headerSize
          /\ EntryEnd(entries[i]) <= h.fileEntryOffset
          /\ i > 1 => EntryEnd(entries[i - 1]) <= entries[i].byteOffset

C16_OpenValidates ==
    (ret.op = "open" /\ valid) => Consistent(m_header, m_fileEntries, Len(m_stream))

(***************************************************************************)
(* C17: Whenever buildHashTable reports success the size of the hash index *)
(* is a power of two between MIN_HASH_TABLE_SIZE and MAX_HASH_TABLE_SIZE,  *)
(* both included, and at least twice the entry count; it reports failure   *)
(* instead of building a table larger than the maximum.                    *)
(***************************************************************************)
PowerOfTwo(n) == \E k \in 0..30 : n = 2 ^ k

\* the table is the one buildHashTable made of the current entry table
JustBuilt ==
    LET b == buildHashTable(m_hashTable, m_header, m_fileEntries)
    IN  Callable /\ ~m_dirty /\ b.ok /\ m_hashTable = b.table

C17_TableSize ==
    JustBuilt =>
        /\ PowerOfTwo(Len(m_hashTable))
        /\ Len(m_hashTable) >= MIN_HASH_TABLE_SIZE
        /\ Len(m_hashTable) <= MAX_HASH_TABLE_SIZE
        /\ Len(m_hashTable) >= 2 * m_header.fileCount

(***************************************************************************)
(* C18: Layout.  In every state reachable from a well-formed package       *)
(* fileEntryOffset >= headerSize and every live entry's byte range lies    *)
(* inside [headerSize, fileEntryOffset); after each flush                  *)
(* fileEntryOffset + fileCount * record size and filenameOffset +          *)
(* filenameSize are at most the physical size of the file.                 *)
(***************************************************************************)
C18_Layout ==
    Callable =>
        /\ m_header.fileEntryOffset >= m_header.headerSize
        /\ \A i \in 1..Len(m_fileEntries) :
              LiveAt(m_fileEntries, i) =>
                 /\ m_fileEntries[i].byteOffset >= m_header.headerSize
                 /\ EntryEnd(m_fileEntries[i]) <= m_header.fileEntryOffset
        /\ (ret.op = "flush" /\ ~m_dirty) =>
              /\ m_header.fileEntryOffset + m_header.fileCount * sizeofFileEntry
                    <= Len(m_stream)
              /\ m_header.filenameOffset + m_header.filenameSize <= Len(m_stream)

(***************************************************************************)
(* C19: Name uniqueness.  Starting from a package whose live entries have  *)
(* pairwise distinct names, after any addFile (with or without REPLACE),   *)
(* removeFile and flush no two live entries carry the same name; a         *)
(* successful addFile with REPLACE leaves exactly one live entry of the    *)
(* name.                                                                   *)
(***************************************************************************)
C19_NamesUnique ==
    Callable =>
        /\ DistinctNames(m_fileEntries)
        /\ \A n \in Names :
              added[Key(n)] # NoContent => Cardinality(LiveNamed(m_fileEntries, n)) = 1

(***************************************************************************)
(* C20: Defrag preserves content.  A successful defrag changes only entry  *)
(* offsets and the header's table offsets: the live entries, their table   *)
(* order, names, hashes and sizes are as before, and for every live name   *)
(* openFile finds the same entry and its accessor reads the same bytes as  *)
(* before the call.                                                        *)
(***************************************************************************)
SameButOffset(e1, e2) ==
    [e1 EXCEPT !.byteOffset = 0] = [e2 EXCEPT !.byteOffset = 0]

SameButTableOffsets(h1, h2) ==
    [h1 EXCEPT !.fileEntryOffset = 0, !.filenameOffset = 0]
       = [h2 EXCEPT !.fileEntryOffset = 0, !.filenameOffset = 0]

C20_DefragPreserves ==
    [][(defrag /\ ret'.val = "true") =>
          /\ Len(m_fileEntries') = Len(m_fileEntries)
          /\ \A i \in 1..Len(m_fileEntries) :
                /\ SameButOffset(m_fileEntries'[i], m_fileEntries[i])
                /\ SameCells(FileCells(m_stream', m_fileEntries'[i]),
                             FileCells(m_stream, m_fileEntries[i]))
          /\ m_filenames' = m_filenames
          /\ SameButTableOffsets(m_header', m_header)
          /\ m_hashTable' = m_hashTable
          /\ UNCHANGED <<valid, m_readonly, m_dirty>>
          /\ \A n \in Names :
                /\ getFileIndex(n)' = getFileIndex(n)
                /\ openFileResults(m_dirty, m_hashTable, m_fileEntries, n)'
                      = openFileResults(m_dirty, m_hashTable, m_fileEntries, n)]_vars

(***************************************************************************)
(* An editing session under way.  The instance was opened read-write on    *)
(* the empty package whose header is one cell larger than PackageHeader,   *)
(* and addFile("e2", "A"), addFile("e1", "a@") and flush have been called: *)
(* the table holds "a@" at the header end in front of "A", which           *)
(* insertFile put at sizeof(PackageHeader).  The calls of Next follow.     *)
(***************************************************************************)
InitSession ==
    \E file \in {PackageFile(sizeofPackageHeader + 1, CURRENT_VERSION, << >>, 0)} :
    \E p \in {Package(file, FALSE)} :
    \E a1 \in {addBody(file, p.header, p.entries, p.names, p.table,
                       ExtContent("e2"), <<65>>)} :
    \E a2 \in {addBody(a1.stream, a1.header, a1.entries, a1.names, a1.table,
                       ExtContent("e1"), <<97, 64>>)} :
    \E flushed \in {flushBody(a2.stream, a2.header, a2.entries, a2.names, a2.table)} :
        /\ m_stream = flushed.stream
        /\ valid = TRUE
        /\ m_readonly = FALSE
        /\ m_dirty = FALSE
        /\ m_header = flushed.header
        /\ m_fileEntries = flushed.entries
        /\ m_filenames = flushed.names
        /\ m_hashTable = flushed.table
        /\ crashed = FALSE
        /\ added = [NoneAdded EXCEPT ![Key(<<65>>)] = ExtContent("e2"),
                                     ![Key(<<97, 64>>)] = ExtContent("e1")]
        /\ session = "adds"
        /\ ops = 0
        /\ committed = [i \in 1..Len(flushed.entries) |-> TRUE]
        /\ ret = Call("flush", << >>, 0, "void")

SpecSession == InitSession /\ [][Next]_vars

====
